---------------------------- MODULE Spec2Model ----------------------------
(***************************************************************************)
(* Model of the clawtext adaptive hybrid retrieval-ranking pipeline.       *)
(*                                                                         *)
(* Numbers.  The program computes with IEEE doubles; the model computes    *)
(* with exact rationals, each kept as an integer over a fixed scale that   *)
(* is named where it is used (scores in hundredths, weights in halves, RRF *)
(* scores over the common denominator RRFDen(k)).  Ids are strings in the  *)
(* program and naturals here; "id ascending" is the order on naturals.     *)
(* Sequences are 1-based here and 0-based in the program; a rank r of the  *)
(* program is position r + 1 of the model.                                 *)
(***************************************************************************)
EXTENDS Integers, Sequences, FiniteSets, TLC

VARIABLES
    now,    \* the wall clock, in whole days (new Date() / Date.now())
    pc,     \* position of the caller: "idle", "done", or a step of a call
    call,   \* the call in progress or just finished: its name and inputs
    out,    \* the value the call returned (or how it failed)
    again,  \* the value returned by repeating the same call later
    frame,  \* the local variables of an asynchronous call in progress
    queryPatterns,  \* the Map of the AdaptiveLearning object of the process
    recorded,       \* per pattern, the outcomes reported since the beginning
    events,         \* the events of the SearchEffectivenessMonitor
    currentWeights, \* its current weights, in hundredths
    recoveryAttempts,  \* the Map of the same name of the SelfHealingModule
    repairsStarted,    \* per component, the repairs begun since the beginning
    files,             \* the file system: the content stored under each path
    consolidationLog,  \* the array of the same name of the MemoryConsolidator
    firstContent       \* per path, its content when its consolidation began

vars == <<now, pc, call, out, again, frame, queryPatterns, recorded,
          events, currentWeights, recoveryAttempts, repairsStarted,
          files, consolidationLog, firstContent>>

(***************************************************************************)
(* Bounds of the model.                                                    *)
(***************************************************************************)
NumIds == 3        \* distinct candidate ids
MaxLen == 2        \* longest input list
MaxLists == 2      \* most ranked lists given to reciprocalRankFusion

Ids == 1..NumIds

NoCall == [op |-> "none"]
Null == [kind |-> "null"]

(***************************************************************************)
(* Sequence helpers.                                                       *)
(***************************************************************************)
RECURSIVE SeqsUpTo(_, _)
SeqsUpTo(S, n) ==
    IF n = 0 THEN {<<>>}
    ELSE LET shorter == SeqsUpTo(S, n - 1)
         IN  shorter \cup {Append(s, x) : s \in {t \in shorter : Len(t) = n - 1}, x \in S}

Range(s) == {s[i] : i \in 1..Len(s)}

IsInjective(s) == \A i, j \in 1..Len(s) : s[i] = s[j] => i = j

Prefix(s, n) == SubSeq(s, 1, n)

RECURSIVE SumOver(_, _)
\* the sum of f[x] over the finite set S
SumOver(f, S) ==
    IF S = {} THEN 0
    ELSE LET x == CHOOSE y \in S : TRUE
         IN  f[x] + SumOver(f, S \ {x})

RECURSIVE Product(_, _)
Product(lo, hi) == IF lo > hi THEN 1 ELSE lo * Product(lo + 1, hi)

Max(a, b) == IF a >= b THEN a ELSE b
Min(a, b) == IF a <= b THEN a ELSE b

\* a sort that puts a new element before the elements equal to it
RECURSIVE UnstableSortDesc(_)
UnstableSortDesc(keys) ==
    IF keys = <<>> THEN <<>>
    ELSE LET n == Len(keys)
             front == UnstableSortDesc(SubSeq(keys, 1, n - 1))
             ahead == Cardinality({i \in 1..Len(front) : keys[front[i]] > keys[n]})
         IN  SubSeq(front, 1, ahead) \o <<n>> \o SubSeq(front, ahead + 1, Len(front))

\* Array.prototype.sort with the comparator (a, b) => key(b) - key(a): a
\* stable sort by key descending.  keys is the sequence of keys; the result
\* is the sequence of positions of keys in sorted order.
RECURSIVE StableSortDesc(_)
StableSortDesc(keys) ==
    IF keys = <<>> THEN <<>>
    ELSE LET n == Len(keys)
             front == StableSortDesc(SubSeq(keys, 1, n - 1))
             \* the new element goes after every element at least as large
             ahead == Cardinality({i \in 1..Len(front) : keys[front[i]] >= keys[n]})
         IN  SubSeq(front, 1, ahead) \o <<n>> \o SubSeq(front, ahead + 1, Len(front))

Permute(s, perm) == [i \in 1..Len(perm) |-> s[perm[i]]]

(***************************************************************************)
(* Reciprocal Rank Fusion.                                                 *)
(***************************************************************************)
DefaultK == 60
KValues == {1, DefaultK}

\* weights are kept in halves: the weight 1.0 is WeightUnit
WeightUnit == 2
NoWeight == -1                      \* weights[sourceIndex] is undefined
WeightValues == {NoWeight, 0, 3}    \* unset, 0.0, 1.5
DefaultWeight == WeightUnit

\* common denominator of 1 / (k + rank + 1) over every rank of the model
RRFDen(k) == Product(k + 1, k + MaxLen)

\* weights[sourceIndex] || 1.0
SourceWeight(w) == IF w = NoWeight \/ w = 0 THEN DefaultWeight ELSE w

\* sourceWeight * (1 / (k + rank + 1)), over WeightUnit * RRFDen(k);
\* pos is the 1-based position, rank + 1
RRFContribution(w, k, pos) == SourceWeight(w) * (RRFDen(k) \div (k + pos))

\* a fusion that keeps one entry per occurrence instead of one per id
FirstSeenNoDedup(s, acc) == acc \o s

\* the keys of resultMap in insertion order: each id at its first occurrence
RECURSIVE FirstSeen(_, _)
FirstSeen(s, acc) ==
    IF s = <<>> THEN acc
    ELSE FirstSeen(Tail(s), IF Head(s) \in Range(acc) THEN acc ELSE Append(acc, Head(s)))

RECURSIVE Flatten(_)
Flatten(rankings) ==
    IF rankings = <<>> THEN <<>> ELSE Head(rankings) \o Flatten(Tail(rankings))

\* rrfScores.get(id) after both forEach loops
RRFScore(rankings, k, weights, id) ==
    LET occ == {<<i, p>> \in (1..Len(rankings)) \X (1..MaxLen + 1) :
                    p <= Len(rankings[i]) /\ rankings[i][p] = id}
        contrib == [o \in occ |-> RRFContribution(weights[o[1]], k, o[2])]
    IN  SumOver(contrib, occ)

reciprocalRankFusion(rankings, k, weights) ==
    LET keys == FirstSeen(Flatten(rankings), <<>>)
        combinedResults == [i \in 1..Len(keys) |->
                               [id |-> keys[i], rrfScore |-> RRFScore(rankings, k, weights, keys[i])]]
        order == StableSortDesc([i \in 1..Len(keys) |-> combinedResults[i].rrfScore])
    IN  Permute(combinedResults, order)

\* new Map()
EmptyMap == <<>>

(***************************************************************************)
(* The objects of the process as their constructors leave them when no     *)
(* state file exists on disk to load.                                      *)
(***************************************************************************)
\* the monitor has recorded no search
NoEvents == EmptyMap

\* weights in hundredths
DEFAULT_WEIGHTS == [semantic |-> 70, keyword |-> 30, adjustmentReason |-> "default"]

\* A path is the sequence of its segments, a content the sequence of its
\* sentences.  Two of the memory files have the same file name.
MemoryPaths == {<<"memory", "a.md">>, <<"notes", "a.md">>, <<"memory", "b.md">>}

InitialFiles ==
    (<<"memory", "a.md">> :> <<"alpha">>) @@
    (<<"notes", "a.md">> :> <<"beta">>) @@
    (<<"memory", "b.md">> :> <<"gamma">>)

(***************************************************************************)
(* The caller.                                                             *)
(***************************************************************************)
Init ==
    /\ now = 0
    /\ pc = "idle"
    /\ call = NoCall
    /\ out = Null
    /\ again = Null
    /\ frame = Null
    /\ queryPatterns = EmptyMap
    /\ recorded = EmptyMap
    /\ events = NoEvents
    /\ currentWeights = DEFAULT_WEIGHTS
    /\ recoveryAttempts = EmptyMap
    /\ repairsStarted = EmptyMap
    /\ files = InitialFiles
    /\ consolidationLog = <<>>
    /\ firstContent = EmptyMap

\* the caller takes the result and is ready for the next call
Return ==
    /\ pc \in {"done", "repeated"}
    /\ pc' = "idle"
    /\ call' = NoCall
    /\ out' = Null
    /\ again' = Null
    /\ frame' = Null
    /\ UNCHANGED <<now, queryPatterns, recorded,
                   events, currentWeights, recoveryAttempts, repairsStarted,
                   files, consolidationLog, firstContent>>

CallRRF ==
    /\ pc = "idle"
    /\ \E n \in 0..MaxLists :
       \E rankings \in [1..n -> SeqsUpTo(Ids, MaxLen)], k \in KValues,
          weights \in [1..n -> WeightValues] :
          /\ call' = [op |-> "reciprocalRankFusion", rankings |-> rankings,
                      k |-> k, weights |-> weights]
          /\ out' = reciprocalRankFusion(rankings, k, weights)
    /\ pc' = "done"
    /\ UNCHANGED <<now, again, frame, queryPatterns, recorded,
                   events, currentWeights, recoveryAttempts, repairsStarted,
                   files, consolidationLog, firstContent>>

NextRRF == CallRRF \/ Return

SpecRRF == Init /\ [][NextRRF]_vars

(***************************************************************************)
(* Claims about reciprocalRankFusion.                                      *)
(***************************************************************************)
RRFDone == pc = "done" /\ call.op = "reciprocalRankFusion"

OutIds == [i \in 1..Len(out) |-> out[i].id]

InputIds == UNION {Range(call.rankings[i]) : i \in 1..Len(call.rankings)}

\* the 1-based position of the first occurrence of x in s
FirstPos(s, x) == CHOOSE p \in 1..Len(s) : s[p] = x /\ \A q \in 1..(p - 1) : s[q] # x

\* C2: the output of reciprocalRankFusion holds every id that occurs in at
\* least one input list exactly once: none is lost, none appears twice.
C2_FusionMerge ==
    RRFDone => /\ Range(OutIds) = InputIds
               /\ IsInjective(OutIds)

\* an id occurs in two lists at different ranks, and the call has returned
C2_Witness ==
    /\ RRFDone
    /\ Len(call.rankings) = 2
    /\ \E x \in Range(call.rankings[1]) \cap Range(call.rankings[2]) :
          FirstPos(call.rankings[1], x) # FirstPos(call.rankings[2], x)

\* the weight the claim gives a list: the configured one, 1.0 only if unset
ClaimedWeight(w) == IF w = NoWeight THEN DefaultWeight ELSE w

ClaimedRRFScore(id) ==
    LET holders == {i \in 1..Len(call.rankings) : id \in Range(call.rankings[i])}
        term == [i \in holders |->
                    ClaimedWeight(call.weights[i])
                        * (RRFDen(call.k) \div (call.k + FirstPos(call.rankings[i], id)))]
    IN  SumOver(term, holders)

ListsHaveUniqueIds == \A i \in 1..Len(call.rankings) : IsInjective(call.rankings[i])

\* C3: the fused score of each id is the sum, over exactly the lists that
\* contain it, of weight_list * 1/(k + rank + 1), for every configured k and
\* weight; the default weight 1.0 is used only for a list with no weight.
C3_ScoreIsWeightedSum ==
    (RRFDone /\ ListsHaveUniqueIds) =>
        \A i \in 1..Len(out) : out[i].rrfScore = ClaimedRRFScore(out[i].id)

\* C4 as claimed: results with equal fused scores are ordered by id ascending
C4_TiesByIdAscending ==
    RRFDone =>
        \A i, j \in 1..Len(out) :
            (i < j /\ out[i].rrfScore = out[j].rrfScore) => out[i].id < out[j].id

\* C4 as amended: results with equal fused scores keep the order in which
\* their ids were first encountered, scanning the lists in the order given
\* and each list from rank 0.
C4_TiesByFirstEncounter ==
    RRFDone =>
        \A i, j \in 1..Len(out) :
            (i < j /\ out[i].rrfScore = out[j].rrfScore) =>
                FirstPos(Flatten(call.rankings), out[i].id)
                    < FirstPos(Flatten(call.rankings), out[j].id)

\* two results tie and the one encountered first has the larger id
C4_Witness ==
    /\ RRFDone
    /\ \E i, j \in 1..Len(out) :
          /\ i < j
          /\ out[i].rrfScore = out[j].rrfScore
          /\ out[i].id > out[j].id

(***************************************************************************)
(* Query analysis and feature selection (adaptive-features.ts).            *)
(*                                                                         *)
(* A query is a sequence of lower-case words separated by single blanks.   *)
(* Scores and minConfidenceForEscalation are in hundredths.                *)
(***************************************************************************)
MaxQueryLen == 3     \* most words in a query
MaxResults == 5      \* most initial results

Vocabulary == {"gateway", "thing", "how", "to"}

\* w.length
WordLength == [w \in Vocabulary |->
                  CASE w = "gateway" -> 7
                    [] w = "thing" -> 5
                    [] w = "how" -> 3
                    [] w = "to" -> 2]

Queries == SeqsUpTo(Vocabulary, MaxQueryLen)

technicalTerms ==
    {"api", "config", "database", "server", "gateway", "endpoint",
     "memory", "search", "embedding", "vector", "cluster",
     "async", "await", "promise", "callback", "function"}

vagueTerms ==
    {"thing", "stuff", "something", "anything", "it", "that",
     "this", "good", "bad", "nice", "ok"}

\* /how (to|do|can)/i, /what (is|are|does)/i, /why (is|does)/i on the words
\* of the vocabulary: a word ending the first alternative followed by a word
\* beginning the second
ambiguousPairs ==
    {<<"how", "to">>, <<"how", "do">>, <<"how", "can">>,
     <<"what", "is">>, <<"what", "are">>, <<"what", "does">>,
     <<"why", "is">>, <<"why", "does">>}

\* /explain/i
ambiguousWords == {"explain"}

\* query.toLowerCase().split(/\s+/).filter(w => w.length > 2)
SelectSeqLong(query) == SelectSeq(query, LAMBDA w : WordLength[w] > 2)

CountIn(words, S) == Cardinality({i \in 1..Len(words) : words[i] \in S})

hasAmbiguousPattern(query) ==
    \/ \E i \in 1..(Len(query) - 1) : <<query[i], query[i + 1]>> \in ambiguousPairs
    \/ \E i \in 1..Len(query) : query[i] \in ambiguousWords

\* analyzeQuery.  With N = max(words.length, 1), ambiguity is kept as the
\* numerator ambiguityNum over 10 * N and domainSpecificity as technicalCount
\* over N, so that  ambiguity > 0.4  is  ambiguityNum > 4 * N  and
\* domainSpecificity > 0.5  is  2 * technicalCount > N.
analyzeQuery(query) ==
    LET words == SelectSeqLong(query)
        N == Max(Len(words), 1)
        technicalCount == CountIn(words, technicalTerms)
        vagueCount == CountIn(words, vagueTerms)
        pattern == hasAmbiguousPattern(query)
        ambiguityNum == 10 * vagueCount + (IF pattern THEN 3 * N ELSE 0)
        complexity ==
            IF Len(words) <= 3 /\ ~pattern THEN "simple"
            ELSE IF ambiguityNum > 4 * N \/ Len(words) > 8 THEN "complex"
            ELSE "medium"
        expectedRecall ==
            IF 2 * technicalCount > N THEN "low"
            ELSE IF ambiguityNum > 4 * N THEN "high"
            ELSE "medium"
    IN  [complexity |-> complexity,
         ambiguityNum |-> Min(ambiguityNum, 10 * N),
         specificityNum |-> Max(Min(10 * N - ambiguityNum, 10 * N), 0),
         domainSpecificityNum |-> Min(technicalCount, N),
         den |-> N,
         expectedRecall |-> expectedRecall]

Policies == {"auto", "always", "never"}

DefaultMinResults == 3
DefaultMinConfidence == 60

\* <<minResultsForEscalation, minConfidenceForEscalation>>
Thresholds == {<<DefaultMinResults, DefaultMinConfidence>>, <<0, 0>>, <<1, 80>>}

AdaptiveConfigs ==
    [minResultsForEscalation : {t[1] : t \in Thresholds},
     minConfidenceForEscalation : {t[2] : t \in Thresholds},
     enableQueryExpansion : Policies,
     enableLLMReranking : Policies,
     enableTemporalDecay : Policies]

\* initial results as a search returns them: scores in descending order
ScoreValues == {40, 80}
ResultLists ==
    UNION {{[i \in 1..n |-> IF i <= hi THEN 80 ELSE 40] : hi \in 0..n} : n \in 0..MaxResults}

RECURSIVE SeqSum(_)
SeqSum(s) == IF s = <<>> THEN 0 ELSE Head(s) + SeqSum(Tail(s))

\* initialResults.length < minResultsForEscalation ||
\* avgConfidence < minConfidenceForEscalation, avgConfidence being 0 for no
\* result; sum / length < c is compared as sum < c * length
needsEscalation(initialResults, cfg) ==
    \/ Len(initialResults) < cfg.minResultsForEscalation
    \/ IF Len(initialResults) > 0
       THEN SeqSum(initialResults) < cfg.minConfidenceForEscalation * Len(initialResults)
       ELSE 0 < cfg.minConfidenceForEscalation

\* a decision that lets poor results override the policy 'never'
DecideExpansionLeaky(policy, escalate, analysis) ==
    IF policy = "always" THEN [use |-> TRUE, why |-> "Query expansion: forced on"]
    ELSE IF escalate
         THEN [use |-> TRUE, why |-> "Query expansion: enabled due to low results"]
    ELSE IF policy = "never"
         THEN [use |-> FALSE, why |-> "Query expansion: forced off"]
    ELSE IF analysis.expectedRecall = "high"
         THEN [use |-> TRUE, why |-> "Query expansion: enabled for high-recall query"]
    ELSE [use |-> FALSE, why |-> "Query expansion: skipped (sufficient results)"]

\* an auto mode that forgets the high-recall queries
DecideExpansionNoRecall(policy, escalate, analysis) ==
    IF policy = "always" THEN [use |-> TRUE, why |-> "Query expansion: forced on"]
    ELSE IF policy = "never"
         THEN [use |-> FALSE, why |-> "Query expansion: forced off"]
    ELSE IF escalate
         THEN [use |-> TRUE, why |-> "Query expansion: enabled due to low results"]
    ELSE [use |-> FALSE, why |-> "Query expansion: skipped (sufficient results)"]

\* selectFeatures, decide on query expansion
DecideExpansion(policy, escalate, analysis) ==
    IF policy = "always" THEN [use |-> TRUE, why |-> "Query expansion: forced on"]
    ELSE IF policy = "never"
         THEN [use |-> FALSE, why |-> "Query expansion: forced off"]
    ELSE IF escalate
         THEN [use |-> TRUE, why |-> "Query expansion: enabled due to low results"]
    ELSE IF analysis.expectedRecall = "high"
         THEN [use |-> TRUE, why |-> "Query expansion: enabled for high-recall query"]
    ELSE [use |-> FALSE, why |-> "Query expansion: skipped (sufficient results)"]

MinResultsForRerank == 5

\* selectFeatures, decide on LLM re-ranking
DecideReranking(policy, initialResults, analysis) ==
    IF policy = "always" THEN [use |-> TRUE, why |-> "LLM re-ranking: forced on"]
    ELSE IF policy = "never"
         THEN [use |-> FALSE, why |-> "LLM re-ranking: forced off"]
    ELSE IF analysis.complexity = "complex" /\ Len(initialResults) >= MinResultsForRerank
         THEN [use |-> TRUE,
               why |-> "LLM re-ranking: enabled for complex query with sufficient results"]
    ELSE [use |-> FALSE, why |-> "LLM re-ranking: skipped (simple query or few results)"]

ManyResultsForDecay == 10

\* selectFeatures, decide on temporal decay
DecideDecay(policy, initialResults, analysis) ==
    IF policy = "always" THEN [use |-> TRUE, why |-> "Temporal decay: forced on"]
    ELSE IF policy = "never"
         THEN [use |-> FALSE, why |-> "Temporal decay: forced off"]
    ELSE IF Len(initialResults) > ManyResultsForDecay \/ analysis.expectedRecall = "medium"
         THEN [use |-> TRUE, why |-> "Temporal decay: enabled for result filtering"]
    ELSE [use |-> FALSE, why |-> "Temporal decay: skipped (small result set)"]

selectFeatures(query, initialResults, cfg) ==
    LET analysis == analyzeQuery(query)
        escalate == needsEscalation(initialResults, cfg)
        expansion == DecideExpansion(cfg.enableQueryExpansion, escalate, analysis)
        reranking == DecideReranking(cfg.enableLLMReranking, initialResults, analysis)
        decay == DecideDecay(cfg.enableTemporalDecay, initialResults, analysis)
    IN  [useQueryExpansion |-> expansion.use,
         useLLMReranking |-> reranking.use,
         useTemporalDecay |-> decay.use,
         reasoning |-> <<expansion.why, reranking.why, decay.why>>]

CallSelectFeatures ==
    /\ pc = "idle"
    /\ \E query \in Queries, initialResults \in ResultLists, cfg \in AdaptiveConfigs :
          /\ <<cfg.minResultsForEscalation, cfg.minConfidenceForEscalation>> \in Thresholds
          /\ call' = [op |-> "selectFeatures", query |-> query,
                      initialResults |-> initialResults, config |-> cfg]
          /\ out' = selectFeatures(query, initialResults, cfg)
    /\ pc' = "done"
    /\ UNCHANGED <<now, again, frame, queryPatterns, recorded,
                   events, currentWeights, recoveryAttempts, repairsStarted,
                   files, consolidationLog, firstContent>>

NextSelect == CallSelectFeatures \/ Return

SpecSelect == Init /\ [][NextSelect]_vars

(***************************************************************************)
(* Claims about selectFeatures.                                            *)
(***************************************************************************)
SelectDone == pc = "done" /\ call.op = "selectFeatures"

Forced(policy, use) ==
    /\ policy = "always" => use
    /\ policy = "never" => ~use

\* C9: for each of the three optional features, selectFeatures returns the
\* feature enabled when its policy is 'always' and disabled when it is
\* 'never', whatever the query, the initial results and the other fields.
C9_PolicyForces ==
    SelectDone =>
        /\ Forced(call.config.enableQueryExpansion, out.useQueryExpansion)
        /\ Forced(call.config.enableLLMReranking, out.useLLMReranking)
        /\ Forced(call.config.enableTemporalDecay, out.useTemporalDecay)

\* 'never' holds against an empty result list, and 'always' against results
\* that the automatic rule would leave alone
C9_Witness ==
    /\ SelectDone
    /\ \/ /\ call.config.enableQueryExpansion = "never"
          /\ call.initialResults = <<>>
          /\ ~out.useQueryExpansion
       \/ /\ call.config.enableLLMReranking = "always"
          /\ call.initialResults = <<>>
          /\ out.useLLMReranking

\* the profile of section 4.1, from the words longer than two characters
ClaimedRecallHigh(query) ==
    LET kept == {i \in 1..Len(query) : WordLength[query[i]] > 2}
        tech == Cardinality({i \in kept : query[i] \in technicalTerms})
        vague == Cardinality({i \in kept : query[i] \in vagueTerms})
        count == Cardinality(kept)
        interrogative == hasAmbiguousPattern(query)
    IN  /\ count > 0 => 2 * tech <= count
        /\ IF count = 0 THEN FALSE
           ELSE 10 * vague + (IF interrogative THEN 3 * count ELSE 0) > 4 * count

\* the mean score of no result counts as 0, as avgConfidence does
MeanBelow(results, threshold) ==
    IF Len(results) = 0 THEN 0 < threshold
    ELSE SeqSum(results) < threshold * Len(results)

C10_Enabled ==
    \/ Len(call.initialResults) < call.config.minResultsForEscalation
    \/ MeanBelow(call.initialResults, call.config.minConfidenceForEscalation)
    \/ ClaimedRecallHigh(call.query)

C11_EmptyResultsEscalate ==
    (/\ SelectDone
     /\ call.initialResults = <<>>
     /\ call.config.enableQueryExpansion = "auto") => out.useQueryExpansion

(***************************************************************************)
(* Weighted-linear hybrid scoring (hybrid-search-simple).                  *)
(*                                                                         *)
(* A candidate is a record  [id, score, len, hits, pinned, conf, day]:     *)
(*   score   the semantic score of the source, in hundredths;              *)
(*   len     snippet.length, a perfect square so that sqrt(len / 100) is   *)
(*           the rational ISqrt(len) / 10;                                 *)
(*   hits    the number of occurrences of each query keyword in the        *)
(*           lower-cased snippet;                                          *)
(*   pinned  whether the snippet holds the pin mark;                       *)
(*   conf    the number after "confidence:" in the snippet, in hundredths, *)
(*           or NoConf;                                                    *)
(*   day     the date of a path of the form memory/YYYY-MM-DD.md, in days, *)
(*           day 0 being 2026-02-23, or NoDate for a path without a date.  *)
(***************************************************************************)
NoConf == -1
NoDate == -1000

ISqrt(n) == CHOOSE r \in 0..n : r * r = n

\* the number NaN, which no comparison holds of
NaN == -2000000000

\* keywordScore for a snippet of length len and nKeywords keywords, each
\* occurring hits times, in hundredths:
\* min(matches / (keywords.length * sqrt(text.length / 100)), 1.0);
\* without keyword or without text it is min(0 / 0, 1.0), NaN
keywordScore(len, hits, nKeywords) ==
    IF nKeywords * len = 0 THEN NaN
    ELSE Min((1000 * nKeywords * hits) \div (nKeywords * ISqrt(len)), 100)

SemanticWeight == 7      \* 0.7, in tenths
KeywordWeight == 3       \* 0.3, in tenths
PinnedBoost == 12        \* 1.2, in tenths
RecentBoost == 11        \* 1.1, in tenths

\* Math.max(...semanticResults.map(r => r.score || 0), 0.001), as the divisor
\* of the normalisation: with every score 0 each normalised score is 0
MaxSemanticScore(results) ==
    LET m == CHOOSE x \in {0} \cup {results[i].score : i \in 1..Len(results)} :
                 \A i \in 1..Len(results) : x >= results[i].score
    IN  IF m = 0 THEN 1 ELSE m

\* a recency boost that does not look at the option boostRecent
RecentFactorUnconditional(boostRecent, isRecent) == IF isRecent THEN RecentBoost ELSE 10

\* if (boostRecent) { if (isRecent) hybridScore *= 1.1 }, in tenths
RecentFactor(boostRecent, isRecent) == IF boostRecent /\ isRecent THEN RecentBoost ELSE 10

\* hybridScore of one result, over 100000 * MaxSemanticScore(results)
HybridScore(r, maxSem, kw, boostPinned, boostRecent, isRecent) ==
    IF kw = NaN THEN NaN
    ELSE (100 * SemanticWeight * r.score + KeywordWeight * kw * maxSem)
            * (IF boostPinned /\ r.pinned THEN PinnedBoost ELSE 10)
            * RecentFactor(boostRecent, isRecent)

\* result.path?.includes('2026-02-23') || result.path?.includes('2026-02-22')
IsRecentPath(day) == day \in {0, -1}

\* applyHybridScoring of lib/hybrid-search-simple.ts (synchronous)
applyHybridScoringSync(semanticResults, nKeywords, boostPinned, boostRecent) ==
    LET maxSem == MaxSemanticScore(semanticResults)
        scored == [i \in 1..Len(semanticResults) |->
                      LET r == semanticResults[i]
                          kw == keywordScore(r.len, r.hits, nKeywords)
                      IN  [r EXCEPT !.score =
                              HybridScore(r, maxSem, kw, boostPinned, boostRecent,
                                          IsRecentPath(r.day))]]
    IN  Permute(scored, StableSortDesc([i \in 1..Len(scored) |-> scored[i].score]))

(***************************************************************************)
(* Session context: confidence filter and budgeter (session-context).      *)
(***************************************************************************)
NumMems == 2         \* distinct memories in the store
MaxHits == 1         \* most results memory_search returns to one query
MaxMems == 3         \* longest list given to trimToBudget
MaxBudget == 4       \* largest token budget given to trimToBudget

DefaultMaxMemories == 10
DefaultTokenBudget == 2000
SessionMinConfidence == 70
PreferenceMinConfidence == 80
MissingConfidence == 50
PreferenceLimit == 5
ProjectLimit == 8
DecisionLimit == 5

\* estimateTokens: Math.ceil(text.length / 4)
estimateTokens(len) == (len + 3) \div 4

\* a budgeter that skips an item that does not fit and goes on (bin-packing)
RECURSIVE trimSkipping(_, _, _)
trimSkipping(memories, budget, totalTokens) ==
    IF memories = <<>> THEN <<>>
    ELSE LET tokens == estimateTokens(Head(memories).len)
         IN  IF totalTokens + tokens > budget
             THEN trimSkipping(Tail(memories), budget, totalTokens)
             ELSE <<Head(memories)>> \o trimSkipping(Tail(memories), budget, totalTokens + tokens)

\* the loop of trimToBudget from the state (remaining memories, totalTokens)
RECURSIVE trimLoop(_, _, _)
trimLoop(memories, budget, totalTokens) ==
    IF memories = <<>> THEN <<>>
    ELSE LET tokens == estimateTokens(Head(memories).len)
         IN  IF totalTokens + tokens > budget
             THEN <<>>
             ELSE <<Head(memories)>> \o trimLoop(Tail(memories), budget, totalTokens + tokens)

trimToBudget(memories, budget) == trimLoop(memories, budget, 0)

\* extractConfidence
extractConfidence(m) == IF m.conf = NoConf THEN MissingConfidence ELSE m.conf

\* deduplicateById: the first memory of each id
RECURSIVE deduplicateById(_, _)
deduplicateById(memories, seen) ==
    IF memories = <<>> THEN <<>>
    ELSE IF Head(memories).id \in seen
         THEN deduplicateById(Tail(memories), seen)
         ELSE <<Head(memories)>> \o deduplicateById(Tail(memories), seen \cup {Head(memories).id})

\* prioritizeForContext: pinned first; the results carry no hybridScore, so
\* the comparison of hybridScore is NaN > 0.05, false; then the recent paths
prioritizeForContext(memories) ==
    Permute(memories,
            StableSortDesc([i \in 1..Len(memories) |->
                               (IF memories[i].pinned THEN 2 ELSE 0)
                                 + (IF IsRecentPath(memories[i].day) THEN 1 ELSE 0)]))

\* searchMemories on the results that memory_search returned
searchMemories(semanticResults, nKeywords, recencyBoost, minConfidence) ==
    LET hybridResults == applyHybridScoringSync(semanticResults, nKeywords, TRUE, recencyBoost)
    IN  IF minConfidence > 0
        THEN SelectSeq(hybridResults, LAMBDA m : extractConfidence(m) >= minConfidence)
        ELSE hybridResults

\* the kinds of snippet in the store
MemKinds ==
    {[len |-> 4, hits |-> 1, pinned |-> FALSE, conf |-> 90, day |-> NoDate],
     [len |-> 16, hits |-> 0, pinned |-> TRUE, conf |-> NoConf, day |-> 0],
     [len |-> 16, hits |-> 1, pinned |-> FALSE, conf |-> 30, day |-> NoDate]}

MemIds == 1..NumMems

\* what memory_search returns for one query: at most limit memories of the
\* store, best first
SearchHits(limit) ==
    {h \in SeqsUpTo(MemIds, Min(limit, MaxHits)) : IsInjective(h)}

AsResults(store, hits) ==
    [i \in 1..Len(hits) |->
        [id |-> hits[i], score |-> 100 - 10 * i,
         len |-> store[hits[i]].len, hits |-> store[hits[i]].hits,
         pinned |-> store[hits[i]].pinned, conf |-> store[hits[i]].conf,
         day |-> store[hits[i]].day]]

SessionConfigs ==
    [maxMemories : {1, DefaultMaxMemories},
     tokenBudget : {MaxBudget, DefaultTokenBudget},
     minConfidence : {SessionMinConfidence},
     useClusters : BOOLEAN]

\* loadSessionContext.  cluster is what loadClusterContext does: it throws or
\* returns the memories of the cluster; hasProject says whether projectId was given;
\* the three searches return prefs, project and decisions.
loadSessionContext(cfg, hasProject, cluster, prefs, project, decisions) ==
    LET fromCluster ==
            IF cfg.useClusters /\ hasProject /\ ~cluster.throws THEN cluster.memories ELSE <<>>
        clusterLoaded == fromCluster # <<>>
        preferences == searchMemories(prefs, 2, FALSE, PreferenceMinConfidence)
        projectContext ==
            IF hasProject /\ ~clusterLoaded THEN searchMemories(project, 2, TRUE, 0) ELSE <<>>
        recent == searchMemories(decisions, 2, TRUE, 0)
        allMemories == fromCluster \o preferences \o projectContext \o recent
        rankedMemories == prioritizeForContext(deduplicateById(allMemories, {}))
    IN  [memories |-> trimToBudget(rankedMemories, cfg.tokenBudget),
         clustersLoaded |-> clusterLoaded]

TrimInputs == SeqsUpTo({[len |-> l] : l \in {0, 4, 5, 9}}, MaxMems)

CallTrimToBudget ==
    /\ pc = "idle"
    /\ \E memories \in TrimInputs, budget \in 0..MaxBudget :
          /\ call' = [op |-> "trimToBudget", memories |-> memories, budget |-> budget]
          /\ out' = trimToBudget(memories, budget)
    /\ pc' = "done"
    /\ UNCHANGED <<now, again, frame, queryPatterns, recorded,
                   events, currentWeights, recoveryAttempts, repairsStarted,
                   files, consolidationLog, firstContent>>

CallLoadSessionContext ==
    /\ pc = "idle"
    /\ \E cfg \in SessionConfigs, hasProject \in BOOLEAN, store \in [MemIds -> MemKinds],
          clusterThrows \in BOOLEAN, c \in SearchHits(MaxHits),
          p \in SearchHits(PreferenceLimit), j \in SearchHits(ProjectLimit),
          d \in SearchHits(DecisionLimit) :
          LET cluster == [throws |-> clusterThrows, memories |-> AsResults(store, c)]
          IN  /\ clusterThrows => c = <<>>
              /\ call' = [op |-> "loadSessionContext", config |-> cfg,
                          hasProject |-> hasProject, cluster |-> cluster,
                          preferences |-> AsResults(store, p),
                          project |-> AsResults(store, j),
                          decisions |-> AsResults(store, d)]
              /\ out' = loadSessionContext(cfg, hasProject, cluster, AsResults(store, p),
                                           AsResults(store, j), AsResults(store, d))
    /\ pc' = "done"
    /\ UNCHANGED <<now, again, frame, queryPatterns, recorded,
                   events, currentWeights, recoveryAttempts, repairsStarted,
                   files, consolidationLog, firstContent>>

NextSession == CallTrimToBudget \/ CallLoadSessionContext \/ Return

SpecSession == Init /\ [][NextSession]_vars

(***************************************************************************)
(* Claims about the budgeter and the confidence filter.                    *)
(***************************************************************************)
TrimDone == pc = "done" /\ call.op = "trimToBudget"
SessionDone == pc = "done" /\ call.op = "loadSessionContext"

\* the accumulated token estimate of the first n items of the input
TokensOfPrefix(memories, n) ==
    SeqSum([i \in 1..n |-> (IF memories[i].len % 4 = 0
                            THEN memories[i].len \div 4
                            ELSE memories[i].len \div 4 + 1)])

\* C6: the budgeter returns exactly the longest prefix of the rank-ordered
\* input whose accumulated token estimate does not exceed tokenBudget; no
\* item after the first one that does not fit is included.
C6_LongestPrefix ==
    TrimDone =>
        /\ Len(out) <= Len(call.memories)
        /\ out = Prefix(call.memories, Len(out))
        /\ TokensOfPrefix(call.memories, Len(out)) <= call.budget
        /\ \A n \in 0..Len(call.memories) :
              TokensOfPrefix(call.memories, n) <= call.budget => n <= Len(out)

\* the budgeter stopped at an item that does not fit although a later item
\* would still have fitted
C6_Witness ==
    /\ TrimDone
    /\ Len(out) >= 1
    /\ \E n \in (Len(out) + 2)..Len(call.memories) :
          TokensOfPrefix(call.memories, Len(out))
              + estimateTokens(call.memories[n].len) <= call.budget

\* C7: the number of memories returned by loadSessionContext never exceeds
\* the configured maxMemories.
C7_AtMostMaxMemories ==
    SessionDone => Len(out.memories) <= call.config.maxMemories

\* C8: no memory whose confidence is below the configured minConfidence
\* appears in the result of loadSessionContext, a memory without a
\* confidence value counting as 0.5.
C8_NoLowConfidence ==
    SessionDone =>
        \A i \in 1..Len(out.memories) :
            (IF out.memories[i].conf = NoConf THEN 50 ELSE out.memories[i].conf)
                >= call.config.minConfidence

(***************************************************************************)
(* Re-ranking (llm-rerank.ts).                                             *)
(*                                                                         *)
(* A result given to the re-ranker has, besides its score, the fields      *)
(*   hasContent  whether result.content is a string;                       *)
(*   wordHits    the number of query words longer than 3 characters that   *)
(*               occur in the content;                                     *)
(*   timestamp   metadata.timestamp in days, or NoDate;                    *)
(*   confidence  metadata.confidence in hundredths, or NoConf.             *)
(***************************************************************************)
MinToRerank == 3
Providers == {"none", "openrouter", "ollama"}

\* the score heuristicRerank gives one result, in thousandths
HeuristicScore(r, today) ==
    10 * r.score + 200 * r.wordHits
      + (IF r.timestamp # NoDate /\ today - r.timestamp < 7 THEN 100 ELSE 0)
      + (IF r.timestamp # NoDate /\ today - r.timestamp < 1 THEN 200 ELSE 0)
      + (IF r.confidence # NoConf THEN r.confidence ELSE 0)

\* heuristicRerank: result.content.toLowerCase() throws a TypeError for a
\* result without content
heuristicRerank(results, today) ==
    IF \E i \in 1..Len(results) : ~results[i].hasContent
    THEN [threw |-> TRUE, indices |-> <<>>]
    ELSE [threw |-> FALSE,
          indices |-> StableSortDesc([i \in 1..Len(results) |->
                                         HeuristicScore(results[i], today)])]

\* rerankSearchResults: the providers openrouter and ollama return the
\* original order; the heuristic is the provider 'none' and the fallback of
\* the catch block, where a second throw leaves the function
rerankSearchResults(results, provider, today) ==
    IF Len(results) <= MinToRerank
    THEN [threw |-> FALSE, reranked |-> FALSE, results |-> results]
    ELSE IF provider \in {"openrouter", "ollama"}
    THEN [threw |-> FALSE, reranked |-> TRUE, results |-> results]
    ELSE LET first == heuristicRerank(results, today)
             fallback == heuristicRerank(results, today)
         IN  IF ~first.threw
             THEN [threw |-> FALSE, reranked |-> TRUE,
                   results |-> Permute(results, first.indices)]
             ELSE IF ~fallback.threw
             THEN [threw |-> FALSE, reranked |-> TRUE,
                   results |-> Permute(results, fallback.indices)]
             ELSE [threw |-> TRUE, reranked |-> FALSE, results |-> results]

(***************************************************************************)
(* The two ranking calls: hybridSearchRRF and the asynchronous             *)
(* applyHybridScoring with query expansion and re-ranking.                 *)
(***************************************************************************)
MaxDay == 1          \* the clock runs from day 0 to MaxDay
MaxCands == 4        \* most candidates given to applyHybridScoring

RecentWindowDays == 7
NegInfinity == -1000000000
DefaultRRFMaxResults == 10

\* isMemoryRecent: the path holds a date no more than 7 days before now
isMemoryRecent(day, today) == day # NoDate /\ today - day <= RecentWindowDays

\* Math.max(...keywords.map(kw => keywordScore(snippet, [kw]))) over the
\* query's own keywords and, with expandQuery, those of its expansions;
\* -Infinity without any keyword
BestKeywordScore(r, query, expandQuery) ==
    LET scores == (IF query.nKeywords > 0 THEN {keywordScore(r.len, r.hits, 1)} ELSE {})
                    \cup (IF expandQuery /\ query.nExpansion > 0
                          THEN {keywordScore(r.len, r.xhits, 1)} ELSE {})
    IN  IF scores = {} THEN NegInfinity
        ELSE CHOOSE x \in scores : \A y \in scores : x >= y

\* applyHybridScoring of the asynchronous module.  The result is the list
\* returned, with the list computed before re-ranking and whether
\* rerankSearchResults threw.
applyHybridScoring(semanticResults, query, opts, today) ==
    LET maxSem == MaxSemanticScore(semanticResults)
        scored == [i \in 1..Len(semanticResults) |->
                      LET r == semanticResults[i]
                          kw == BestKeywordScore(r, query, opts.expandQuery)
                      IN  [id |-> i,
                           score |-> IF kw = NegInfinity THEN NegInfinity
                                     ELSE HybridScore(r, maxSem, kw, opts.boostPinned,
                                                      opts.boostRecent,
                                                      isMemoryRecent(r.day, today)),
                           source |-> IF kw > 30 THEN "hybrid" ELSE "semantic",
                           hasContent |-> FALSE, wordHits |-> 0,
                           timestamp |-> NoDate, confidence |-> NoConf]]
        hybridResults == Permute(scored, StableSortDesc([i \in 1..Len(scored) |-> scored[i].score]))
        tryRerank == opts.rerankResults /\ Len(hybridResults) > MinToRerank
        reranked == rerankSearchResults(hybridResults, opts.rerankProvider, today)
    IN  [results |-> IF tryRerank /\ ~reranked.threw /\ reranked.reranked
                     THEN reranked.results ELSE hybridResults,
         prior |-> hybridResults,
         rerankThrew |-> tryRerank /\ reranked.threw]

\* createRankings: each list sorted by its own score, best first
SortByScore(results) ==
    Permute(results, StableSortDesc([i \in 1..Len(results) |-> results[i].score]))

createRankings(semanticResults, keywordResults) ==
    <<[i \in 1..Len(semanticResults) |-> SortByScore(semanticResults)[i].id],
      [i \in 1..Len(keywordResults) |-> SortByScore(keywordResults)[i].id]>>

\* a parameter left out takes its default when the options are destructured
OrDefault(w) == IF w = NoWeight THEN DefaultWeight ELSE w

hybridSearchRRF(semanticResults, keywordResults, opts) ==
    LET rankings == createRankings(semanticResults, keywordResults)
        fusedResults == reciprocalRankFusion(rankings, opts.k,
                            <<OrDefault(opts.semanticWeight), OrDefault(opts.keywordWeight)>>)
    IN  Prefix(fusedResults, Min(opts.maxResults, Len(fusedResults)))

\* the kinds of candidate given to applyHybridScoring
RankKinds ==
    {[score |-> 100, len |-> 400, hits |-> 0, xhits |-> 0, pinned |-> FALSE, day |-> NoDate],
     [score |-> 95, len |-> 400, hits |-> 0, xhits |-> 1, pinned |-> FALSE,
      day |-> 0 - RecentWindowDays],
     [score |-> 95, len |-> 400, hits |-> 1, xhits |-> 0, pinned |-> TRUE, day |-> NoDate]}

RankQueries == [nKeywords : {0, 1}, nExpansion : {0, 1}]

HybridOptions ==
    [boostPinned : BOOLEAN, boostRecent : BOOLEAN, expandQuery : BOOLEAN,
     rerankResults : BOOLEAN, rerankProvider : Providers]

RRFOptionSets ==
    [k : KValues, semanticWeight : {NoWeight, 3}, keywordWeight : {NoWeight, 3},
     maxResults : {1, DefaultRRFMaxResults}]

Scored(ids, scoreOf) == [i \in 1..Len(ids) |-> [id |-> ids[i], score |-> scoreOf[ids[i]]]]

\* one evaluation of the ranking call c at the time today
RankingOutput(c, today) ==
    IF c.op = "hybridSearchRRF"
    THEN hybridSearchRRF(c.semanticResults, c.keywordResults, c.options)
    ELSE applyHybridScoring(c.semanticResults, c.query, c.options, today).results

CallHybridSearchRRF ==
    /\ pc = "idle"
    /\ \E sem \in SeqsUpTo(Ids, MaxLen), kw \in SeqsUpTo(Ids, MaxLen),
          scoreOf \in [Ids -> ScoreValues], opts \in RRFOptionSets :
          /\ call' = [op |-> "hybridSearchRRF", at |-> now,
                      semanticResults |-> Scored(sem, scoreOf),
                      keywordResults |-> Scored(kw, scoreOf), options |-> opts]
          /\ out' = RankingOutput(call', now)
    /\ pc' = "done"
    /\ UNCHANGED <<now, again, frame, queryPatterns, recorded,
                   events, currentWeights, recoveryAttempts, repairsStarted,
                   files, consolidationLog, firstContent>>

CallApplyHybridScoring ==
    /\ pc = "idle"
    /\ \E cands \in SeqsUpTo(RankKinds, MaxCands), query \in RankQueries,
          opts \in HybridOptions :
          /\ ~opts.rerankResults => opts.rerankProvider = "none"
          /\ call' = [op |-> "applyHybridScoring", at |-> now,
                      semanticResults |-> cands, query |-> query, options |-> opts]
          /\ out' = RankingOutput(call', now)
          /\ frame' = applyHybridScoring(cands, query, opts, now)
    /\ pc' = "done"
    /\ UNCHANGED <<now, again, queryPatterns, recorded,
                   events, currentWeights, recoveryAttempts, repairsStarted,
                   files, consolidationLog, firstContent>>

\* a day passes
Tick ==
    /\ now < MaxDay
    /\ pc \in {"idle", "done"}
    /\ now' = now + 1
    /\ UNCHANGED <<pc, call, out, again, frame, queryPatterns, recorded,
                   events, currentWeights, recoveryAttempts, repairsStarted,
                   files, consolidationLog, firstContent>>

\* the same ranking call is made again: same candidates, same options
Repeat ==
    /\ pc = "done"
    /\ call.op \in {"hybridSearchRRF", "applyHybridScoring"}
    /\ again' = RankingOutput(call, now)
    /\ pc' = "repeated"
    /\ UNCHANGED <<now, call, out, frame, queryPatterns, recorded,
                   events, currentWeights, recoveryAttempts, repairsStarted,
                   files, consolidationLog, firstContent>>

NextRank == CallHybridSearchRRF \/ CallApplyHybridScoring \/ Tick \/ Repeat \/ Return

SpecRank == Init /\ [][NextRank]_vars

(***************************************************************************)
(* Claims about repeated ranking calls.                                    *)
(***************************************************************************)
IdsOf(results) == [i \in 1..Len(results) |-> results[i].id]

NoCandidateAged ==
    \A i \in 1..Len(call.semanticResults) :
        LET day == call.semanticResults[i].day
        IN  (day # NoDate /\ call.at - day <= RecentWindowDays)
                <=> (day # NoDate /\ now - day <= RecentWindowDays)

MinForAdaptiveRerank == 4

AdaptiveQueries == {<<"gateway">>, <<"thing">>, <<"how", "to", "thing">>}

AdaptivePolicies ==
    {cfg \in AdaptiveConfigs :
        /\ cfg.minResultsForEscalation = DefaultMinResults
        /\ cfg.minConfidenceForEscalation = DefaultMinConfidence}

\* what baseSearchFn resolves with: scores in descending order; either no
\* result has a content field or all have, the low-scored ones holding
\* or not the one word of the query that is longer than three letters
AdaptiveResults ==
    {[i \in 1..Len(scores) |->
         [score |-> scores[i], hasContent |-> shape[1],
          wordHits |-> IF scores[i] = 40 THEN shape[2] ELSE 0,
          timestamp |-> NoDate, confidence |-> NoConf]] :
       scores \in ResultLists, shape \in {<<FALSE, 0>>, <<TRUE, 0>>, <<TRUE, 1>>}}

ScoresOf(results) == [i \in 1..Len(results) |-> results[i].score]

featuresUsed(decision) ==
    (IF decision.useQueryExpansion THEN <<"query-expansion">> ELSE <<>>)
      \o (IF decision.useLLMReranking THEN <<"llm-reranking">> ELSE <<>>)
      \o (IF decision.useTemporalDecay THEN <<"temporal-decay">> ELSE <<>>)

\* the re-ranking step of adaptiveSearch; an exception of
\* rerankSearchResults is not caught
rerankPhase(results, decision, today) ==
    LET run == decision.useLLMReranking /\ Len(results) >= MinForAdaptiveRerank
        reranked == rerankSearchResults(results, "none", today)
    IN  [ran |-> run,
         threw |-> run /\ reranked.threw,
         results |-> IF run /\ ~reranked.threw THEN reranked.results ELSE results]

\* the promise of adaptiveSearch rejected by an exception
Rejected ==
    [status |-> "rejected", results |-> <<>>, featuresUsed |-> <<>>, reasoning |-> <<>>]

\* from the results of the search stage to the promise's fate
finishAdaptive(results, decision, today) ==
    LET phase == rerankPhase(results, decision, today)
    IN  IF phase.threw
        THEN Rejected
        ELSE [status |-> "resolved", results |-> phase.results,
              featuresUsed |-> featuresUsed(decision),
              reasoning |-> decision.reasoning]

CallAdaptiveSearch ==
    /\ pc = "idle"
    /\ \E query \in AdaptiveQueries, cfg \in AdaptivePolicies :
          call' = [op |-> "adaptiveSearch", query |-> query, config |-> cfg]
    /\ pc' = "awaitBase"
    /\ UNCHANGED <<now, out, again, frame, queryPatterns, recorded,
                   events, currentWeights, recoveryAttempts, repairsStarted,
                   files, consolidationLog, firstContent>>

\* the base search resolves: features are selected and, without query
\* expansion, the call runs to its end
BaseSearchResolves ==
    /\ pc = "awaitBase"
    /\ \E baseResults \in AdaptiveResults :
          LET decision == selectFeatures(call.query, ScoresOf(baseResults), call.config)
          IN  IF decision.useQueryExpansion
              THEN /\ pc' = "awaitExpansion"
                   /\ frame' = [prior |-> baseResults, decision |-> decision,
                                failed |-> "none", rerankRan |-> FALSE,
                                decayApplied |-> FALSE]
                   /\ out' = out
              ELSE /\ pc' = "done"
                   /\ frame' = [prior |-> baseResults, decision |-> decision,
                                failed |-> IF rerankPhase(baseResults, decision, now).threw
                                           THEN "rerank" ELSE "none",
                                rerankRan |-> rerankPhase(baseResults, decision, now).ran,
                                decayApplied |-> FALSE]
                   /\ out' = finishAdaptive(baseResults, decision, now)
    /\ UNCHANGED <<now, call, again, queryPatterns, recorded,
                   events, currentWeights, recoveryAttempts, repairsStarted,
                   files, consolidationLog, firstContent>>

\* the base search rejects: so does adaptiveSearch
BaseSearchRejects ==
    /\ pc = "awaitBase"
    /\ pc' = "done"
    /\ out' = Rejected
    /\ frame' = [prior |-> <<>>, decision |-> Null, failed |-> "base",
                 rerankRan |-> FALSE, decayApplied |-> FALSE]
    /\ UNCHANGED <<now, call, again, queryPatterns, recorded,
                   events, currentWeights, recoveryAttempts, repairsStarted,
                   files, consolidationLog, firstContent>>

\* the search with query expansion resolves
ExpansionResolves ==
    /\ pc = "awaitExpansion"
    /\ \E results \in AdaptiveResults :
          /\ out' = finishAdaptive(results, frame.decision, now)
          /\ frame' = [prior |-> results, decision |-> frame.decision,
                       failed |-> IF rerankPhase(results, frame.decision, now).threw
                                  THEN "rerank" ELSE "none",
                       rerankRan |-> rerankPhase(results, frame.decision, now).ran,
                       decayApplied |-> FALSE]
    /\ pc' = "done"
    /\ UNCHANGED <<now, call, again, queryPatterns, recorded,
                   events, currentWeights, recoveryAttempts, repairsStarted,
                   files, consolidationLog, firstContent>>

\* the search with query expansion rejects: the await at line 245 throws
\* and nothing catches it
ExpansionRejects ==
    /\ pc = "awaitExpansion"
    /\ pc' = "done"
    /\ out' = Rejected
    /\ frame' = [frame EXCEPT !.failed = "expansion"]
    /\ UNCHANGED <<now, call, again, queryPatterns, recorded,
                   events, currentWeights, recoveryAttempts, repairsStarted,
                   files, consolidationLog, firstContent>>

NextAdaptive ==
    \/ CallAdaptiveSearch
    \/ BaseSearchResolves
    \/ BaseSearchRejects
    \/ ExpansionResolves
    \/ ExpansionRejects
    \/ CallApplyHybridScoring
    \/ Return

SpecAdaptive == Init /\ [][NextAdaptive]_vars

(***************************************************************************)
(* Claims about failing optional stages.                                   *)
(***************************************************************************)
\* C1: a ranking call never fails because an optional stage fails: if the
\* expansion search or the re-ranking step throws or rejects during
\* adaptiveSearch or applyHybridScoring, the call still resolves and returns
\* the result list already computed by the prior stage.
C1_OptionalStageFailureIsAbsorbed ==
    pc = "done" =>
        /\ (call.op = "adaptiveSearch" /\ frame.failed \in {"expansion", "rerank"})
              => (out.status = "resolved" /\ out.results = frame.prior)
        /\ (call.op = "applyHybridScoring" /\ frame.rerankThrew) => out = frame.prior


(***************************************************************************)
(* AdaptiveLearning (adaptive-features.ts).                                *)
(*                                                                         *)
(* Quality scores are in hundredths.  A running mean is the exact rational *)
(* [num, den] in lowest terms that the stored number stands for; the       *)
(* rounding of floating-point division is left out.                        *)
(***************************************************************************)
MaxRecords == 4      \* most outcomes reported in one run

Patterns == {"gateway config", "test pattern"}
QualityValues == {50, 60, 80}

MinUsesToDecide == 3
ExpansionMargin == 10

RECURSIVE GCD(_, _)
GCD(a, b) == IF b = 0 THEN a ELSE GCD(b, a % b)

\* the rational n / d in lowest terms, d > 0 and n >= 0
Rat(n, d) == [num |-> n \div GCD(n, d), den |-> d \div GCD(n, d)]

\* (avg * (count - 1) + resultQuality) / count
NextMean(avg, count, resultQuality) ==
    Rat(avg.num * (count - 1) + resultQuality * avg.den, avg.den * count)

ZeroStats ==
    [usesExpansion |-> 0, totalUses |-> 0,
     avgQualityWith |-> Rat(0, 1), avgQualityWithout |-> Rat(0, 1)]

\* an object that forgets what the Map held for the pattern
ExistingForgetful(map, queryPattern) == ZeroStats

\* this.queryPatterns.get(queryPattern) || { usesExpansion: 0, ... }
Existing(map, queryPattern) ==
    IF queryPattern \in DOMAIN map THEN map[queryPattern] ELSE ZeroStats

\* a mean taken over all the uses of the pattern instead of its cohort
CohortCountTotal(totalUses, usesExpansion, usedExpansion) == totalUses

\* the divisor of the running mean: the size of the cohort of this outcome
CohortCount(totalUses, usesExpansion, usedExpansion) ==
    IF usedExpansion THEN usesExpansion ELSE totalUses - usesExpansion

\* recordQuery: the Map after the call
recordQuery(map, queryPattern, usedExpansion, resultQuality) ==
    LET existing == Existing(map, queryPattern)
        totalUses == existing.totalUses + 1
        usesExpansion == existing.usesExpansion + (IF usedExpansion THEN 1 ELSE 0)
        count == CohortCount(totalUses, usesExpansion, usedExpansion)
        updated ==
            [usesExpansion |-> usesExpansion,
             totalUses |-> totalUses,
             avgQualityWith |->
                 IF usedExpansion
                 THEN NextMean(existing.avgQualityWith, count, resultQuality)
                 ELSE existing.avgQualityWith,
             avgQualityWithout |->
                 IF usedExpansion
                 THEN existing.avgQualityWithout
                 ELSE NextMean(existing.avgQualityWithout, count, resultQuality)]
    IN  [p \in DOMAIN map \cup {queryPattern} |->
            IF p = queryPattern THEN updated ELSE map[p]]

\* a gate that opens one outcome early
EnoughUsesEarly(totalUses) == totalUses >= MinUsesToDecide - 1

\* the negation of  data.totalUses < 3
EnoughUses(totalUses) == totalUses >= MinUsesToDecide

\* a comparison without the margin
LeadsByMarginLoose(with, without) == with.num * without.den > without.num * with.den

\* data.avgQualityWith > data.avgQualityWithout + 0.1
LeadsByMargin(with, without) ==
    with.num * without.den > without.num * with.den + ExpansionMargin * with.den * without.den

Boolean(b) == [kind |-> "boolean", value |-> b]

\* shouldUseExpansion: null without enough data
shouldUseExpansion(map, queryPattern) ==
    IF queryPattern \notin DOMAIN map \/ ~EnoughUses(map[queryPattern].totalUses)
    THEN Null
    ELSE Boolean(LeadsByMargin(map[queryPattern].avgQualityWith,
                               map[queryPattern].avgQualityWithout))

\* the outcomes reported so far for a pattern: count and sum of each cohort
NoOutcomes == [withCount |-> 0, withSum |-> 0, withoutCount |-> 0, withoutSum |-> 0]

Recorded(queryPattern) ==
    IF queryPattern \in DOMAIN recorded THEN recorded[queryPattern] ELSE NoOutcomes

Report(queryPattern, usedExpansion, resultQuality) ==
    LET r == Recorded(queryPattern)
        new == IF usedExpansion
               THEN [r EXCEPT !.withCount = @ + 1, !.withSum = @ + resultQuality]
               ELSE [r EXCEPT !.withoutCount = @ + 1, !.withoutSum = @ + resultQuality]
    IN  [p \in DOMAIN recorded \cup {queryPattern} |->
            IF p = queryPattern THEN new ELSE recorded[p]]

TotalRecorded ==
    LET n == [p \in DOMAIN recorded |-> recorded[p].withCount + recorded[p].withoutCount]
    IN  SumOver(n, DOMAIN recorded)

\* one caller's recordQuery; the method has no await, so it runs from its
\* get to its set without another caller's code in between
CallRecordQuery ==
    /\ pc = "idle"
    /\ TotalRecorded < MaxRecords
    /\ \E queryPattern \in Patterns, usedExpansion \in BOOLEAN,
          resultQuality \in QualityValues :
          /\ call' = [op |-> "recordQuery", queryPattern |-> queryPattern,
                      usedExpansion |-> usedExpansion, resultQuality |-> resultQuality]
          /\ queryPatterns' = recordQuery(queryPatterns, queryPattern, usedExpansion,
                                          resultQuality)
          /\ recorded' = Report(queryPattern, usedExpansion, resultQuality)
    /\ pc' = "done"
    /\ out' = Null
    /\ UNCHANGED <<now, again, frame,
                   events, currentWeights, recoveryAttempts, repairsStarted,
                   files, consolidationLog, firstContent>>

CallShouldUseExpansion ==
    /\ pc = "idle"
    /\ \E queryPattern \in Patterns :
          /\ call' = [op |-> "shouldUseExpansion", queryPattern |-> queryPattern]
          /\ out' = shouldUseExpansion(queryPatterns, queryPattern)
    /\ pc' = "done"
    /\ UNCHANGED <<now, again, frame, queryPatterns, recorded,
                   events, currentWeights, recoveryAttempts, repairsStarted,
                   files, consolidationLog, firstContent>>

\* the process ends and a new one constructs its AdaptiveLearning object
Restart ==
    /\ pc = "idle"
    /\ queryPatterns # EmptyMap
    /\ queryPatterns' = EmptyMap
    /\ UNCHANGED <<now, pc, call, out, again, frame, recorded,
                   events, currentWeights, recoveryAttempts, repairsStarted,
                   files, consolidationLog, firstContent>>

NextLearning == CallRecordQuery \/ CallShouldUseExpansion \/ Return

SpecLearning == Init /\ [][NextLearning]_vars

NextLearningRestart == NextLearning \/ Restart

SpecLearningRestart == Init /\ [][NextLearningRestart]_vars

(***************************************************************************)
(* Claims about AdaptiveLearning.                                          *)
(***************************************************************************)
AskedDone == pc = "done" /\ call.op = "shouldUseExpansion"
RecordDone == pc = "done" /\ call.op = "recordQuery"

OutcomesOf(queryPattern) ==
    Recorded(queryPattern).withCount + Recorded(queryPattern).withoutCount

\* C12: after any sequence of recordQuery calls, shouldUseExpansion(p) returns
\* null as long as fewer than 3 outcomes in total (both cohorts together) have
\* been recorded for pattern p, and a boolean as soon as 3 or more have been.
C12_LearningGate ==
    AskedDone =>
        /\ OutcomesOf(call.queryPattern) < 3 => out = Null
        /\ OutcomesOf(call.queryPattern) >= 3 => out.kind = "boolean"

\* the third outcome of a pattern has just opened the gate, while another
\* pattern has outcomes of its own
C12_Witness ==
    /\ AskedDone
    /\ OutcomesOf(call.queryPattern) = 3
    /\ out.kind = "boolean"
    /\ \E p \in Patterns \ {call.queryPattern} : OutcomesOf(p) = 1

\* the rational m equals sum / count, and 0 for an empty cohort
IsMeanOf(m, sum, count) ==
    IF count = 0 THEN m.num = 0 ELSE m.num * count = sum * m.den

MeansAreArithmetic ==
    \A p \in DOMAIN recorded :
        /\ p \in DOMAIN queryPatterns
        /\ IsMeanOf(queryPatterns[p].avgQualityWith,
                    recorded[p].withSum, recorded[p].withCount)
        /\ IsMeanOf(queryPatterns[p].avgQualityWithout,
                    recorded[p].withoutSum, recorded[p].withoutCount)

\* new = old + (value - old) / count, all over old.den * count * new.den
IsIncrement(new, old, value, count) ==
    new.num * old.den * count
        = (old.num * count + value * old.den - old.num) * new.den

\* what one recordQuery call does to the two means of its pattern
IncrementalUpdate ==
    (pc = "idle" /\ pc' = "done" /\ call'.op = "recordQuery") =>
        LET p == call'.queryPattern
            old == Existing(queryPatterns, p)
            new == queryPatterns'[p]
        IN  /\ \A q \in DOMAIN queryPatterns \ {p} : queryPatterns'[q] = queryPatterns[q]
            /\ IF call'.usedExpansion
               THEN /\ new.avgQualityWithout = old.avgQualityWithout
                    /\ IsIncrement(new.avgQualityWith, old.avgQualityWith,
                                   call'.resultQuality, recorded'[p].withCount)
               ELSE /\ new.avgQualityWith = old.avgQualityWith
                    /\ IsIncrement(new.avgQualityWithout, old.avgQualityWithout,
                                   call'.resultQuality, recorded'[p].withoutCount)

\* C13: after any sequence of recordQuery calls for a pattern, the
\* with-expansion mean equals the arithmetic mean of the quality scores
\* recorded with usedExpansion = true and the without-expansion mean that of
\* those recorded with usedExpansion = false; each call changes only the mean
\* of its own cohort, by newMean = oldMean + (value - oldMean) / count.
C13_RunningMeans == []MeansAreArithmetic /\ [][IncrementalUpdate]_vars

\* a second outcome has just moved the mean of a cohort to a value that is
\* none of the scores, the other cohort holding an outcome too
C13_Witness ==
    /\ RecordDone
    /\ Recorded(call.queryPattern).withCount >= 2
    /\ Recorded(call.queryPattern).withoutCount >= 1
    /\ queryPatterns[call.queryPattern].avgQualityWith.den > 1
    /\ queryPatterns[call.queryPattern].avgQualityWithout.num > 0

\* the lead of the with-expansion mean over the without-expansion mean
\* exceeds 0.1; the mean of an empty cohort counts as 0
RecordedLeadExceedsMargin(queryPattern) ==
    LET r == Recorded(queryPattern)
        wc == IF r.withCount = 0 THEN 1 ELSE r.withCount
        oc == IF r.withoutCount = 0 THEN 1 ELSE r.withoutCount
    IN  r.withSum * oc - r.withoutSum * wc > 10 * wc * oc

RecordedLeadIsMargin(queryPattern) ==
    LET r == Recorded(queryPattern)
    IN  /\ r.withCount > 0 /\ r.withoutCount > 0
        /\ r.withSum * r.withoutCount - r.withoutSum * r.withCount
              = 10 * r.withCount * r.withoutCount

C16_StatsSurvive ==
    /\ MeansAreArithmetic
    /\ \A p \in DOMAIN recorded :
          /\ queryPatterns[p].totalUses = OutcomesOf(p)
          /\ queryPatterns[p].usesExpansion = recorded[p].withCount

(***************************************************************************)
(* maximalMarginalRelevance (clawtext-extension.ts).                       *)
(*                                                                         *)
(* A result is [id, score, words]: id is its position in the input, score  *)
(* is in hundredths and words is the set of words of its snippet, empty    *)
(* for a result without snippet.  lambda is in halves; a similarity is     *)
(* held over SimScale and an MMR score over LambdaUnit * 100 * SimScale.   *)
(***************************************************************************)
MaxMMRItems == 3     \* most results given to maximalMarginalRelevance

LambdaUnit == 2
SimScale == 6
DefaultLambda == 1
DefaultMMRMaxResults == 10

LambdaValues == {0, DefaultLambda, LambdaUnit}
SnippetValues == {{}, {"similar", "content"}, {"similar"}, {"different"}}
MMRKinds == [score : ScoreValues, words : SnippetValues]
MMRMaxResultsValues == (0..MaxMMRItems) \cup {DefaultMMRMaxResults}

\* estimateSimilarity: Jaccard similarity of the two word sets, 0 when a
\* snippet is empty
estimateSimilarity(a, b) ==
    IF a.words = {} \/ b.words = {} THEN 0
    ELSE (Cardinality(a.words \cap b.words) * SimScale)
             \div Cardinality(a.words \cup b.words)

\* selected.reduce((max, s) => Math.max(max, estimateSimilarity(result, s)), 0)
maxSimilarity(result, selected) ==
    LET sims == {0} \cup {estimateSimilarity(result, selected[i]) : i \in 1..Len(selected)}
    IN  CHOOSE x \in sims : \A y \in sims : x >= y

\* lambda * relevance - (1 - lambda) * maxSimilarity
mmrScore(result, selected, lambda) ==
    lambda * result.score * SimScale
        - (LambdaUnit - lambda) * maxSimilarity(result, selected) * 100

\* the index kept by the forEach: the first one with the greatest MMR score
bestIndex(remaining, selected, lambda) ==
    CHOOSE i \in 1..Len(remaining) :
        /\ \A j \in 1..Len(remaining) :
              mmrScore(remaining[i], selected, lambda) >= mmrScore(remaining[j], selected, lambda)
        /\ \A j \in 1..(i - 1) :
              mmrScore(remaining[j], selected, lambda) < mmrScore(remaining[i], selected, lambda)

Splice(s, i) == SubSeq(s, 1, i - 1) \o SubSeq(s, i + 1, Len(s))

\* the while loop
RECURSIVE mmrLoop(_, _, _, _)
mmrLoop(selected, remaining, lambda, maxResults) ==
    IF Len(selected) < maxResults /\ Len(remaining) > 0
    THEN LET best == bestIndex(remaining, selected, lambda)
         IN  mmrLoop(Append(selected, remaining[best]), Splice(remaining, best),
                     lambda, maxResults)
    ELSE selected

\* the most relevant result is selected before maxResults is looked at
maximalMarginalRelevance(results, lambda, maxResults) ==
    IF Len(results) = 0 THEN <<>>
    ELSE LET remaining == SortByScore(results)
         IN  mmrLoop(<<Head(remaining)>>, Tail(remaining), lambda, maxResults)

WithIds(kinds) ==
    [i \in 1..Len(kinds) |-> [id |-> i, score |-> kinds[i].score, words |-> kinds[i].words]]

CallMMR ==
    /\ pc = "idle"
    /\ \E kinds \in SeqsUpTo(MMRKinds, MaxMMRItems), lambda \in LambdaValues,
          maxResults \in MMRMaxResultsValues :
          /\ call' = [op |-> "maximalMarginalRelevance", results |-> WithIds(kinds),
                      lambda |-> lambda, maxResults |-> maxResults]
          /\ out' = maximalMarginalRelevance(WithIds(kinds), lambda, maxResults)
    /\ pc' = "done"
    /\ UNCHANGED <<now, again, frame, queryPatterns, recorded,
                   events, currentWeights, recoveryAttempts, repairsStarted,
                   files, consolidationLog, firstContent>>

NextMMR == CallMMR \/ Return

SpecMMR == Init /\ [][NextMMR]_vars

(***************************************************************************)
(* Claims about maximalMarginalRelevance.                                  *)
(***************************************************************************)
MMRDone == pc = "done" /\ call.op = "maximalMarginalRelevance"

\* C17: maximalMarginalRelevance never returns more items than maxResults nor
\* more than the number of input items, for every maxResults >= 0; every
\* returned item is an input item and none is returned twice, and an empty
\* input yields an empty output.
C17_NeverGrows ==
    MMRDone =>
        /\ Len(out) <= call.maxResults
        /\ Len(out) <= Len(call.results)
        /\ \A i \in 1..Len(out) : out[i] \in Range(call.results)
        /\ IsInjective(out)
        /\ call.results = <<>> => out = <<>>

\* C18: with lambda = 1.0, for any input, maximalMarginalRelevance returns
\* exactly the first min(maxResults, n) items of the input sorted by score
\* descending (pure relevance order), whatever the similarities between
\* snippets.
C18_PureRelevance ==
    (MMRDone /\ call.lambda = LambdaUnit) =>
        out = Prefix(SortByScore(call.results), Min(call.maxResults, Len(call.results)))

(***************************************************************************)
(* Temporal decay (temporal-decay).                                        *)
(*                                                                         *)
(* Scores are in hundredths, the decay rate in tenths per day, ages in     *)
(* whole days.  Math.exp is taken to three decimals, so a decayed score is *)
(* in units of 1/100000; the recency boost is in tenths.                   *)
(***************************************************************************)
MaxAge == 3            \* ages run from -MaxAge to MaxAge, and beyond the cap
MaxDecayResults == 2   \* most results given to applyTemporalDecay

DefaultDecayRate == 1
DefaultMaxAgeDays == 90
DefaultMinScore == 10
DefaultRecencyWindowDays == 7
ExpUnit == 1000

\* 1000 * e^(t / 10) for t from -10 to 10
ExpTable ==
    <<368, 407, 449, 497, 549, 607, 670, 741, 819, 905, 1000,
      1105, 1221, 1350, 1492, 1649, 1822, 2014, 2226, 2460, 2718>>

\* Math.exp(t / 10) in thousandths
RECURSIVE Exp(_)
Exp(t) ==
    IF t < -10 THEN (Exp(t + 10) * ExpTable[1]) \div ExpUnit
    ELSE IF t > 10 THEN (Exp(t - 10) * ExpTable[21]) \div ExpUnit
    ELSE ExpTable[t + 11]

DecayConfigs ==
    [enabled : BOOLEAN, decayRate : {0, DefaultDecayRate},
     maxAgeDays : {1, DefaultMaxAgeDays}, minScore : {DefaultMinScore},
     recencyBoost : BOOLEAN, recencyWindowDays : {DefaultRecencyWindowDays}]

DecayScores == ScoreValues \cup {5}
Ages == (0 - MaxAge)..MaxAge \cup {DefaultMaxAgeDays + 1}

\* a decay without the maximum age cap
AgeCapNever(decayedScore, ageDays, mergedConfig) == decayedScore

\* if (ageDays > mergedConfig.maxAgeDays) decayedScore = mergedConfig.minScore
AgeCap(decayedScore, ageDays, mergedConfig) ==
    IF ageDays > mergedConfig.maxAgeDays THEN mergedConfig.minScore * ExpUnit
    ELSE decayedScore

\* a decay factor that takes the age without the decay rate
DecayFactorOfAgeAlone(decayRate, ageDays) == Exp(0 - ageDays)

\* Math.exp(-mergedConfig.decayRate * ageDays)
DecayFactor(decayRate, ageDays) == Exp(0 - decayRate * ageDays)

\* calculateDecayedScore, in units of 1/100000
calculateDecayedScore(originalScore, ageDays, mergedConfig) ==
    IF ~mergedConfig.enabled THEN originalScore * ExpUnit
    ELSE LET decayFactor == DecayFactor(mergedConfig.decayRate, ageDays)
             decayedScore == Max(originalScore * decayFactor,
                                 mergedConfig.minScore * ExpUnit)
         IN  AgeCap(decayedScore, ageDays, mergedConfig)

\* calculateRecencyBoost, in tenths
calculateRecencyBoost(ageDays, mergedConfig) ==
    IF ~mergedConfig.recencyBoost THEN 10
    ELSE IF ageDays <= 1 THEN 13
    ELSE IF ageDays <= 3 THEN 12
    ELSE IF ageDays <= mergedConfig.recencyWindowDays THEN 11
    ELSE 10

\* extractAgeFromResult: metadata.timestamp, then metadata.created, then the
\* date in the path, each against Date.now(); 0 without any of them
extractAgeFromResult(result, today) ==
    IF result.timestamp # NoDate THEN today - result.timestamp
    ELSE IF result.created # NoDate THEN today - result.created
    ELSE IF result.day # NoDate THEN today - result.day
    ELSE 0

\* applyTemporalDecay: score is in units of 1/1000000
applyTemporalDecay(results, config, today) ==
    LET mapped == [i \in 1..Len(results) |->
                      LET ageDays == extractAgeFromResult(results[i], today)
                      IN  [id |-> i,
                           score |-> calculateDecayedScore(results[i].score, ageDays, config)
                                        * calculateRecencyBoost(ageDays, config),
                           originalScore |-> results[i].score,
                           ageDays |-> ageDays]]
    IN  SortByScore(mapped)

DecayKinds ==
    {[score |-> s, timestamp |-> d[1], created |-> d[2], day |-> d[3]] :
        s \in ScoreValues,
        d \in {<<NoDate, NoDate, NoDate>>, <<-2, NoDate, 0>>, <<0, 2, NoDate>>,
               <<2, NoDate, NoDate>>, <<NoDate, 0, 2>>, <<NoDate, NoDate, 2>>}}

CallCalculateDecayedScore ==
    /\ pc = "idle"
    /\ \E originalScore \in DecayScores, ageDays \in Ages, config \in DecayConfigs :
          /\ call' = [op |-> "calculateDecayedScore", originalScore |-> originalScore,
                      ageDays |-> ageDays, config |-> config]
          /\ out' = calculateDecayedScore(originalScore, ageDays, config)
    /\ pc' = "done"
    /\ UNCHANGED <<now, again, frame, queryPatterns, recorded,
                   events, currentWeights, recoveryAttempts, repairsStarted,
                   files, consolidationLog, firstContent>>

CallApplyTemporalDecay ==
    /\ pc = "idle"
    /\ \E results \in SeqsUpTo(DecayKinds, MaxDecayResults), config \in DecayConfigs :
          /\ call' = [op |-> "applyTemporalDecay", results |-> results, config |-> config]
          /\ out' = applyTemporalDecay(results, config, now)
    /\ pc' = "done"
    /\ UNCHANGED <<now, again, frame, queryPatterns, recorded,
                   events, currentWeights, recoveryAttempts, repairsStarted,
                   files, consolidationLog, firstContent>>

NextDecay == CallCalculateDecayedScore \/ CallApplyTemporalDecay \/ Tick \/ Return

SpecDecay == Init /\ [][NextDecay]_vars

(***************************************************************************)
(* Claims about temporal decay.                                            *)
(***************************************************************************)
DecayDone == pc = "done" /\ call.op = "calculateDecayedScore"
ApplyDecayDone == pc = "done" /\ call.op = "applyTemporalDecay"

\* C19: with decay enabled, calculateDecayedScore returns exactly minScore
\* whenever ageDays > maxAgeDays, for every original score and every decay
\* rate (hard cap bypassing the exponential curve).
C19_HardCap ==
    (DecayDone /\ call.config.enabled /\ call.ageDays > call.config.maxAgeDays)
        => out = call.config.minScore * ExpUnit

\* past the cap with a score that the exponential curve alone would have
\* left above the floor
C19_Witness ==
    /\ DecayDone
    /\ call.config.enabled
    /\ call.ageDays > call.config.maxAgeDays
    /\ call.ageDays <= MaxAge
    /\ call.originalScore * Exp(0 - call.config.decayRate * call.ageDays)
          > call.config.minScore * ExpUnit
    /\ out = call.config.minScore * ExpUnit

\* C20: a negative ageDays (clock skew, e.g. a future-dated memory) is treated
\* as age 0: for every original score and config, the decayed score computed
\* for ageDays < 0 equals the decayed score computed for ageDays = 0.
C20_NegativeAgeIsZero ==
    /\ (DecayDone /\ call.ageDays < 0)
          => out = calculateDecayedScore(call.originalScore, 0, call.config)
    /\ ApplyDecayDone =>
          \A i \in 1..Len(out) :
              out[i].ageDays < 0 =>
                  out[i].score = calculateDecayedScore(out[i].originalScore, 0, call.config)
                                    * calculateRecencyBoost(0, call.config)

MaxSnippetLen == 4     \* longest snippet, in letters
MaxKeywordLen == 2     \* longest keyword, in letters
MaxKeywords == 2       \* most keywords given to keywordScore

Letters == {"g", "G", "w"}

\* String.prototype.toLowerCase
toLowerCase(s) == [i \in 1..Len(s) |-> IF s[i] = "G" THEN "g" ELSE s[i]]

\* const text = snippet.toLowerCase()
Text(snippet) == toLowerCase(snippet)

\* (text.match(new RegExp(keyword, 'g')) || []).length: the matches are taken
\* from left to right without overlap, and the empty pattern matches once at
\* every position, the end included; the keyword is used as given
RECURSIVE CountMatches(_, _)
CountMatches(text, keyword) ==
    IF keyword = <<>> THEN Len(text) + 1
    ELSE IF Len(text) < Len(keyword) THEN 0
    ELSE IF SubSeq(text, 1, Len(keyword)) = keyword
         THEN 1 + CountMatches(SubSeq(text, Len(keyword) + 1, Len(text)), keyword)
    ELSE CountMatches(Tail(text), keyword)

NaNScore == [num |-> 0, den |-> 0]

\* Math.min(matches / divisor, 1.0), squared: 0/0 is NaN and Math.min(NaN, 1)
\* is NaN; x/0 is Infinity for x > 0 and Math.min(Infinity, 1) is 1
normalizedScore(matches, nKeywords, length) ==
    IF nKeywords * length = 0
    THEN IF matches = 0 THEN NaNScore ELSE Rat(1, 1)
    ELSE IF 100 * matches * matches >= nKeywords * nKeywords * length THEN Rat(1, 1)
    ELSE Rat(100 * matches * matches, nKeywords * nKeywords * length)

keywordScoreOfText(snippet, keywords) ==
    LET text == Text(snippet)
        counts == [i \in 1..Len(keywords) |-> CountMatches(text, keywords[i])]
    IN  normalizedScore(SeqSum(counts), Len(keywords), Len(text))

KeywordValues == SeqsUpTo(Letters, MaxKeywordLen)

CallKeywordScore ==
    /\ pc = "idle"
    /\ \E snippet \in SeqsUpTo(Letters, MaxSnippetLen),
          keywords \in SeqsUpTo(KeywordValues, MaxKeywords) :
          /\ call' = [op |-> "keywordScore", snippet |-> snippet, keywords |-> keywords]
          /\ out' = keywordScoreOfText(snippet, keywords)
    /\ pc' = "done"
    /\ UNCHANGED <<now, again, frame, queryPatterns, recorded,
                   events, currentWeights, recoveryAttempts, repairsStarted,
                   files, consolidationLog, firstContent>>

NextKeyword == CallKeywordScore \/ Return

SpecKeyword == Init /\ [][NextKeyword]_vars

(***************************************************************************)
(* Claims about keywordScore.                                              *)
(***************************************************************************)
KeywordDone == pc = "done" /\ call.op = "keywordScore"

\* C22: keywordScore returns exactly 0, with no division by zero and no NaN
\* or infinite value, whenever the term set is empty or the snippet has
\* length zero.
C22_ZeroWithoutTermsOrText ==
    (KeywordDone /\ (call.keywords = <<>> \/ call.snippet = <<>>)) => out = Rat(0, 1)

\* C23: keywordScore counts term occurrences case-insensitively: changing the
\* letter case of the snippet or of any term does not change the score.
C23_CaseInsensitive ==
    KeywordDone =>
        out = keywordScoreOfText(toLowerCase(call.snippet),
                                 [i \in 1..Len(call.keywords) |-> toLowerCase(call.keywords[i])])

(***************************************************************************)
(* Termination of adaptiveSearch.                                          *)
(*                                                                         *)
(* The event loop runs every continuation that is ready, and the base      *)
(* search is taken to settle.  Nothing is assumed about the search with    *)
(* query expansion: the promise returned by baseSearchFn may stay pending, *)
(* and adaptiveSearch sets no timer beside its await.                      *)
(***************************************************************************)
LiveAdaptive ==
    /\ SpecAdaptive
    /\ WF_vars(Return)
    /\ WF_vars(BaseSearchResolves \/ BaseSearchRejects)

\* C24: a ranking call always terminates: if an optional external call
\* (expansion search or re-ranking) never completes or exceeds the
\* caller-supplied timeout, that stage is skipped and the call eventually
\* returns the prior stage's output.
C24_AlwaysTerminates == (pc = "awaitExpansion") ~> (pc = "done")

(***************************************************************************)
(* The order of the list returned by applyHybridScoring, in its            *)
(* synchronous and its asynchronous version.                               *)
(*                                                                         *)
(* Without keyword every score of the synchronous version is NaN: the      *)
(* comparison function b.score - a.score is then NaN for every pair, which *)
(* sort takes as 0, and the stable sort keeps the order of the input.      *)
(***************************************************************************)
SyncKinds ==
    {[score |-> s, len |-> m.len, hits |-> m.hits, pinned |-> m.pinned,
      conf |-> m.conf, day |-> m.day] : s \in ScoreValues, m \in MemKinds}

CallApplyHybridScoringSync ==
    /\ pc = "idle"
    /\ \E semanticResults \in SeqsUpTo(SyncKinds, MaxMems), nKeywords \in 0..2,
          boostPinned \in BOOLEAN, boostRecent \in BOOLEAN :
          /\ call' = [op |-> "applyHybridScoringSync", semanticResults |-> semanticResults,
                      nKeywords |-> nKeywords,
                      options |-> [boostPinned |-> boostPinned, boostRecent |-> boostRecent]]
          /\ out' = applyHybridScoringSync(semanticResults, nKeywords, boostPinned,
                                           boostRecent)
    /\ pc' = "done"
    /\ UNCHANGED <<now, again, frame, queryPatterns, recorded,
                   events, currentWeights, recoveryAttempts, repairsStarted,
                   files, consolidationLog, firstContent>>

NextOrdered == CallApplyHybridScoringSync \/ CallApplyHybridScoring \/ Return

SpecOrdered == Init /\ [][NextOrdered]_vars

HybridDone == pc = "done" /\ call.op \in {"applyHybridScoringSync", "applyHybridScoring"}

\* a >= b as JavaScript evaluates it
GreaterOrEqual(a, b) == a # NaN /\ b # NaN /\ a >= b

\* C25: the list returned by applyHybridScoring is always ordered by
\* non-increasing score, for every combination of options, including when
\* re-ranking is enabled and more than 3 results are present.
C25_OrderedByScore ==
    HybridDone =>
        \A i \in 1..(Len(out) - 1) : GreaterOrEqual(out[i].score, out[i + 1].score)

(***************************************************************************)
(* Claims about what adaptiveSearch reports.                               *)
(***************************************************************************)
AdaptiveResolved ==
    pc = "done" /\ call.op = "adaptiveSearch" /\ out.status = "resolved"

\* C26: in the result of adaptiveSearch, featuresUsed lists a stage only if
\* that stage was actually executed during the call: 'llm-reranking' appears
\* only when the re-ranker was run on the returned results, and
\* 'temporal-decay' only when decay was applied to them.
C26_FeaturesUsedWereRun ==
    AdaptiveResolved =>
        /\ "llm-reranking" \in Range(out.featuresUsed) => frame.rerankRan
        /\ "temporal-decay" \in Range(out.featuresUsed) => frame.decayApplied

\* C27: shouldUseExpansion never returns true for a pattern that has no
\* recorded outcome without expansion: a recommendation to use expansion is
\* made only when both cohorts hold at least one observation to compare.
C27_BothCohortsObserved ==
    (AskedDone /\ out = Boolean(TRUE)) =>
        /\ Recorded(call.queryPattern).withCount >= 1
        /\ Recorded(call.queryPattern).withoutCount >= 1

(***************************************************************************)
(* SearchEffectivenessMonitor: recordSearch, recordSuccess and the tuning  *)
(* of the weights.  Effectiveness scores and weights are in hundredths.    *)
(* A query is the sequence of its lower-case words.  An event is held as   *)
(* its queryType and its effectivenessScore, the two fields that the       *)
(* tuning reads, and events as the number of events of each kind: with at  *)
(* most MaxSearches events, fewer than the 50 that slice(-50) keeps and    *)
(* the 1000 that the trimming keeps, no read of events depends on their    *)
(* order.                                                                  *)
(***************************************************************************)
MaxSearches == 21   \* most events recorded
MaxPending == 1     \* most events that have no effectivenessScore yet

classifyTechnicalTerms ==
    {"api", "config", "database", "server", "endpoint", "function", "class",
     "method", "error", "bug", "fix"}
questionWords == {"how", "what", "why", "when", "where", "who", "which"}
classifyVagueTerms == {"thing", "stuff", "something", "anything", "it", "that", "this"}
exploratoryTerms == {"explore", "find", "discover", "research"}

\* the exploratory pattern also matches the two words "learn about"
IsExploratory(query) ==
    \/ Range(query) \cap exploratoryTerms # {}
    \/ \E i \in 1..(Len(query) - 1) : query[i] = "learn" /\ query[i + 1] = "about"

classifyQuery(query) ==
    IF Range(query) \cap classifyTechnicalTerms # {} THEN "technical"
    ELSE IF IsExploratory(query) THEN "exploratory"
    ELSE IF Range(query) \cap classifyVagueTerms # {} THEN "vague"
    ELSE IF Range(query) \cap questionWords # {} THEN "factual"
    ELSE "exploratory"

\* effectivenessScore of an event that recordSuccess has not reached
NoScore == -1

SearchEvent(queryType, effectivenessScore) ==
    [queryType |-> queryType, effectivenessScore |-> effectivenessScore]

CountOf(evs, event) == IF event \in DOMAIN evs THEN evs[event] ELSE 0

WithCount(evs, event, n) ==
    [e \in (DOMAIN evs \cup {event}) \ (IF n = 0 THEN {event} ELSE {}) |->
        IF e = event THEN n ELSE evs[e]]

\* this.events.push(event)
recordSearch(evs, query) ==
    LET event == SearchEvent(classifyQuery(query), NoScore)
    IN  WithCount(evs, event, CountOf(evs, event) + 1)

NeutralBaseline == 50
ClickedBonus == 20
ContextBonus == 30
ExtendedBonus == 15
NoFollowUpBonus == 15
FollowUpPenalty == 10
FullScore == 100

\* signals.followUpQuery is held as whether a follow-up query was given
effectivenessScore(signals) ==
    LET score == NeutralBaseline
                 + (IF signals.clickedResult THEN ClickedBonus ELSE 0)
                 + (IF signals.contextUsed THEN ContextBonus ELSE 0)
                 + (IF signals.sessionExtended THEN ExtendedBonus ELSE 0)
                 + (IF ~signals.followUpQuery THEN NoFollowUpBonus
                    ELSE 0 - FollowUpPenalty)
    IN  Min(FullScore, Max(0, score))

MinScoredToTune == 20
GoodEffectiveness == 70
PoorTypeEffectiveness == 50
PoorOverallEffectiveness == 40
WeightStep == 5
KeywordCap == 50
SemanticCap == 80
BalancedSemantic == 60
BalancedKeyword == 40
MeaningfulChange == 2

ScoredEvents(evs) == {e \in DOMAIN evs : e.effectivenessScore # NoScore}

\* the number of the events in S, and the sum of their scores
EventCount(evs, S) == SumOver(evs, S)
ScoreSum(evs, S) == SumOver([e \in S |-> evs[e] * e.effectivenessScore], S)

\* byType[queryType]?.avgEffectiveness < 0.5
Underperforms(evs, queryType) ==
    LET S == {e \in ScoredEvents(evs) : e.queryType = queryType}
    IN  /\ S # {}
        /\ ScoreSum(evs, S) < PoorTypeEffectiveness * EventCount(evs, S)

BoostKeywordUncapped(keyword) == keyword + WeightStep

BoostKeyword(keyword) == Min(KeywordCap, keyword + WeightStep)

BoostSemantic(semantic) == Min(SemanticCap, semantic + WeightStep)

checkAndTuneWeights(evs, weights) ==
    LET recent == ScoredEvents(evs)
        n == EventCount(evs, recent)
        total == ScoreSum(evs, recent)
        technical == Underperforms(evs, "technical")
        vague == Underperforms(evs, "vague")
        keyword1 == IF technical THEN BoostKeyword(weights.keyword) ELSE weights.keyword
        semantic1 == IF technical THEN 100 - keyword1 ELSE weights.semantic
        reason1 == IF technical THEN "technical queries underperforming" ELSE ""
        semantic2 == IF vague THEN BoostSemantic(semantic1) ELSE semantic1
        keyword2 == IF vague THEN 100 - semantic2 ELSE keyword1
        reason2 == IF vague THEN "vague queries underperforming" ELSE reason1
        overall == total < PoorOverallEffectiveness * n /\ reason2 = ""
        newSemantic == IF overall THEN BalancedSemantic ELSE semantic2
        newKeyword == IF overall THEN BalancedKeyword ELSE keyword2
        reason == IF overall THEN "overall poor performance" ELSE reason2
        change == IF newSemantic >= weights.semantic
                  THEN newSemantic - weights.semantic
                  ELSE weights.semantic - newSemantic
    IN  IF n < MinScoredToTune THEN weights
        ELSE IF total > GoodEffectiveness * n THEN weights
        ELSE IF reason # "" /\ change > MeaningfulChange
             THEN [semantic |-> newSemantic, keyword |-> newKeyword,
                   adjustmentReason |-> reason]
             ELSE weights

MonitorQueries ==
    {<<"api", "error">>, <<"that", "thing">>, <<"find", "that", "api">>}

\* nothing good and a follow-up; everything good and no follow-up
SignalSets ==
    {[clickedResult |-> FALSE, contextUsed |-> FALSE, sessionExtended |-> FALSE,
      followUpQuery |-> TRUE],
     [clickedResult |-> TRUE, contextUsed |-> TRUE, sessionExtended |-> TRUE,
      followUpQuery |-> FALSE]}

Pending(evs) == {e \in DOMAIN evs : e.effectivenessScore = NoScore}

CallRecordSearch ==
    /\ pc = "idle"
    /\ EventCount(events, DOMAIN events) < MaxSearches
    /\ EventCount(events, Pending(events)) < MaxPending
    /\ \E query \in MonitorQueries :
          /\ call' = [op |-> "recordSearch", query |-> query]
          /\ events' = recordSearch(events, query)
    /\ out' = [kind |-> "searchId"]
    /\ pc' = "done"
    /\ UNCHANGED <<now, again, frame, queryPatterns, recorded,
                   currentWeights, recoveryAttempts, repairsStarted,
                   files, consolidationLog, firstContent>>

\* searchId names one of the events
CallRecordSuccess ==
    /\ pc = "idle"
    /\ \E event \in DOMAIN events, signals \in SignalSets :
          LET scored == SearchEvent(event.queryType, effectivenessScore(signals))
              fewer == WithCount(events, event, events[event] - 1)
              evs == WithCount(fewer, scored, CountOf(fewer, scored) + 1)
          IN  /\ call' = [op |-> "recordSuccess", event |-> event,
                          signals |-> signals]
              /\ events' = evs
              /\ currentWeights' = checkAndTuneWeights(evs, currentWeights)
    /\ out' = Null
    /\ pc' = "done"
    /\ UNCHANGED <<now, again, frame, queryPatterns, recorded,
                   recoveryAttempts, repairsStarted,
                   files, consolidationLog, firstContent>>

\* searchId names no event
CallRecordSuccessUnknown ==
    /\ pc = "idle"
    /\ \E signals \in SignalSets :
          call' = [op |-> "recordSuccess", event |-> Null, signals |-> signals]
    /\ out' = Null
    /\ pc' = "done"
    /\ UNCHANGED <<now, again, frame, queryPatterns, recorded,
                   events, currentWeights, recoveryAttempts, repairsStarted,
                   files, consolidationLog, firstContent>>

NextMonitor ==
    \/ CallRecordSearch
    \/ CallRecordSuccess
    \/ CallRecordSuccessUnknown
    \/ Return

SpecMonitor == Init /\ [][NextMonitor]_vars

MaxStarts == 4   \* most repairs begun on one component

maxRecoveryAttempts == 3

Components == <<"clusters", "entities", "search", "filesystem">>

\* What the four checks find: everything in order; the entities file
\* missing; memories but no cluster files; low search effectiveness; the
\* memory directory missing.
Findings ==
    {[clusters |-> "healthy", entities |-> "healthy", search |-> "healthy",
      filesystem |-> "healthy"],
     [clusters |-> "healthy", entities |-> "degraded", search |-> "healthy",
      filesystem |-> "healthy"],
     [clusters |-> "failed", entities |-> "healthy", search |-> "healthy",
      filesystem |-> "healthy"],
     [clusters |-> "healthy", entities |-> "healthy", search |-> "degraded",
      filesystem |-> "healthy"],
     [clusters |-> "failed", entities |-> "degraded", search |-> "healthy",
      filesystem |-> "degraded"]}

RepairOutcomes == {"repaired", "throws"}

AttemptsOf(attempts, component) ==
    IF component \in DOMAIN attempts THEN attempts[component] ELSE 0

\* whether attemptRepair is called for the check and goes past its guard
StartsRepair(attempts, component, state) ==
    /\ state \in {"degraded", "failed"}
    /\ AttemptsOf(attempts, component) < maxRecoveryAttempts

\* whether attemptRepair reaches this.recoveryAttempts.set
CountsRepair(attempts, component, state, outcome) ==
    StartsRepair(attempts, component, state) /\ outcome = "repaired"

\* the Map after the repairs of one runHealthCheck
attemptRepairs(attempts, states, outcomes) ==
    LET counted == {c \in Range(Components) :
                       CountsRepair(attempts, c, states[c], outcomes[c])}
    IN  [c \in DOMAIN attempts \cup counted |->
            AttemptsOf(attempts, c) + (IF c \in counted THEN 1 ELSE 0)]

\* the state of each check as runHealthCheck returns it
checkStates(attempts, states) ==
    [c \in Range(Components) |->
        IF StartsRepair(attempts, c, states[c]) THEN "recovering" ELSE states[c]]

CallRunHealthCheck ==
    /\ pc = "idle"
    /\ \A c \in DOMAIN repairsStarted : repairsStarted[c] < MaxStarts
    /\ \E states \in Findings, outcomes \in [Range(Components) -> RepairOutcomes] :
          LET started == {c \in Range(Components) :
                             StartsRepair(recoveryAttempts, c, states[c])}
          IN  /\ call' = [op |-> "runHealthCheck", states |-> states,
                          outcomes |-> outcomes]
              /\ recoveryAttempts' = attemptRepairs(recoveryAttempts, states, outcomes)
              /\ repairsStarted' =
                    [c \in DOMAIN repairsStarted \cup started |->
                        AttemptsOf(repairsStarted, c)
                        + (IF c \in started THEN 1 ELSE 0)]
              /\ out' = checkStates(recoveryAttempts, states)
    /\ pc' = "done"
    /\ UNCHANGED <<now, again, frame, queryPatterns, recorded,
                   events, currentWeights,
                   files, consolidationLog, firstContent>>

NextHealing == CallRunHealthCheck \/ Return

SpecHealing == Init /\ [][NextHealing]_vars

\* C29: for each component, the self-healing module starts at most
\* maxRecoveryAttempts (default 3) repairs over any number of health checks,
\* whether the individual repairs succeed or fail; after that it only
\* reports the component and no longer touches it.
C29_RepairsBounded ==
    \A c \in DOMAIN repairsStarted : repairsStarted[c] <= maxRecoveryAttempts

(***************************************************************************)
(* MemoryConsolidator: consolidateMemory and restoreMemory over the file   *)
(* system.  The caller of consolidateMemory passes the content it has just *)
(* read from filePath, as runConsolidation does.  Writes to the disk       *)
(* succeed.  firstContent[p] is the content of p at the moment a           *)
(* consolidation of p began while p was not recorded as consolidated.      *)
(***************************************************************************)
MaxLog == 3   \* most entries of consolidationLog

\* './memory/archive'
archiveDir == <<"memory", "archive">>

\* filePath.split('/').pop()
fileName(filePath) == filePath[Len(filePath)]

\* join(archiveDir, fileName + '.archive'): the directory of filePath is
\* not part of it
archivePathOf(filePath) == Append(archiveDir, fileName(filePath))

\* the first sentence of the content
createSummary(content) == IF content = <<>> THEN <<>> ELSE <<Head(content)>>

formatConsolidated(content) == <<"consolidated: true">> \o createSummary(content)

ConsolidatedMemory(filePath) ==
    [originalPath |-> filePath, archivePath |-> archivePathOf(filePath)]

WriteFile(fs, path, content) ==
    [p \in DOMAIN fs \cup {path} |-> IF p = path THEN content ELSE fs[p]]

IsRecorded(log, filePath) == \E i \in 1..Len(log) : log[i].originalPath = filePath

\* this.consolidationLog.find(c => c.originalPath === consolidatedPath)
FindRecord(log, filePath) ==
    log[CHOOSE i \in 1..Len(log) :
            /\ log[i].originalPath = filePath
            /\ \A j \in 1..(i - 1) : log[j].originalPath # filePath]

RECURSIVE WithoutRecords(_, _)
\* this.consolidationLog.filter(c => c.originalPath !== consolidatedPath)
WithoutRecords(log, filePath) ==
    IF log = <<>> THEN <<>>
    ELSE IF Head(log).originalPath = filePath
         THEN WithoutRecords(Tail(log), filePath)
         ELSE <<Head(log)>> \o WithoutRecords(Tail(log), filePath)

CallConsolidateMemory ==
    /\ pc = "idle"
    /\ Len(consolidationLog) < MaxLog
    /\ \E filePath \in MemoryPaths :
          LET content == files[filePath]
              archived == WriteFile(files, archivePathOf(filePath), content)
          IN  /\ call' = [op |-> "consolidateMemory", filePath |-> filePath,
                          content |-> content]
              /\ files' = WriteFile(archived, filePath, formatConsolidated(content))
              /\ consolidationLog' =
                    Append(consolidationLog, ConsolidatedMemory(filePath))
              /\ firstContent' =
                    IF IsRecorded(consolidationLog, filePath) THEN firstContent
                    ELSE WriteFile(firstContent, filePath, content)
              /\ out' = ConsolidatedMemory(filePath)
    /\ pc' = "done"
    /\ UNCHANGED <<now, again, frame, queryPatterns, recorded,
                   events, currentWeights, recoveryAttempts, repairsStarted>>

CallRestoreMemory ==
    /\ pc = "idle"
    /\ \E consolidatedPath \in MemoryPaths :
          /\ call' = [op |-> "restoreMemory", consolidatedPath |-> consolidatedPath]
          /\ IF ~IsRecorded(consolidationLog, consolidatedPath)
             THEN /\ out' = Boolean(FALSE)
                  /\ UNCHANGED <<files, consolidationLog>>
             ELSE LET consolidated == FindRecord(consolidationLog, consolidatedPath)
                  IN  IF consolidated.archivePath \notin DOMAIN files
                      THEN /\ out' = Boolean(FALSE)
                           /\ UNCHANGED <<files, consolidationLog>>
                      ELSE /\ files' = WriteFile(files, consolidatedPath,
                                                 files[consolidated.archivePath])
                           /\ consolidationLog' =
                                 WithoutRecords(consolidationLog, consolidatedPath)
                           /\ out' = Boolean(TRUE)
    /\ pc' = "done"
    /\ UNCHANGED <<now, again, frame, queryPatterns, recorded,
                   events, currentWeights, recoveryAttempts, repairsStarted,
                   firstContent>>

NextConsolidator == CallConsolidateMemory \/ CallRestoreMemory \/ Return

SpecConsolidator == Init /\ [][NextConsolidator]_vars

RestoredDone ==
    pc = "done" /\ call.op = "restoreMemory" /\ out = Boolean(TRUE)

\* C30: after any sequence of consolidateMemory and restoreMemory calls over
\* any set of file paths, a successful restoreMemory(p) writes back to p
\* exactly the content p had before it was first consolidated, and p is then
\* no longer recorded as consolidated.
C30_RestoreGivesOriginal ==
    RestoredDone =>
        /\ files[call.consolidatedPath] = firstContent[call.consolidatedPath]
        /\ ~IsRecorded(consolidationLog, call.consolidatedPath)

====
